---- MODULE Spec2Model ----
(***************************************************************************)
(* The shard iterator of yellowstone-grpc-tools/src/scylladb/consumer/     *)
(* shard_iterator.rs: a polled state machine over one (producer, shard)    *)
(* log, its background fetch / commit-check tasks and their oneshot        *)
(* channel, together with the producer that appends to the log and commits *)
(* periods.                                                                *)
(*                                                                         *)
(* Option<T> is a sequence of length at most one: <<>> is None, <<x>> is   *)
(* Some(x).  A byte string (Vec<u8>) is a sequence of bytes.               *)
(***************************************************************************)
EXTENDS Integers, Sequences, FiniteSets, TLC

\* ------------------------------------------------------------------ bounds
\* SHARD_OFFSET_MODULO is declared in scylladb/types.rs; the model uses a
\* short period so that period boundaries are reached.
SHARD_OFFSET_MODULO == 2
\* The source's MICRO_BATCH_SIZE is 40; the model scales it down so that the
\* LIMIT of the AccountUpdate query is reached inside one period.
MICRO_BATCH_SIZE == 1
\* The producer writes offsets 0 .. MaxOffset and commits their periods.
MaxOffset == 5
\* The producer appends at most MaxEvents events.
MaxEvents == 2

\* The key lists of the rows and filters the residual filter is applied to
\* have at most MaxKeys keys.
MaxKeys == 2

Offsets == 0 .. MaxOffset
Periods == 0 .. (MaxOffset \div SHARD_OFFSET_MODULO)
\* An iterator is started inside a period or on the last offset of one.
StartOffsets == {0, SHARD_OFFSET_MODULO - 1}

\* ------------------------------------------------------------- data model
K1 == <<1>>
K2 == <<171>>
K3 == <<0, 255>>

None == <<>>
Some(x) == <<x>>

\* A log row without its position: the columns the iterator's query and
\* residual filter look at.
RowShapes ==
    { [event_type |-> "AccountUpdate", pubkey |-> Some(K1), owner |-> Some(K2), account_keys |-> None],
      [event_type |-> "NewTransaction", pubkey |-> None, owner |-> None, account_keys |-> Some(<<K2, K1>>)],
      [event_type |-> "NewTransaction", pubkey |-> None, owner |-> None, account_keys |-> None] }

BlockchainEvent(o, shape) ==
    [offset |-> o, period |-> o \div SHARD_OFFSET_MODULO,
     event_type |-> shape.event_type, pubkey |-> shape.pubkey,
     owner |-> shape.owner, account_keys |-> shape.account_keys]

ShardFilter(tx, owners, pubkeys) ==
    [tx_account_keys |-> tx, account_owners |-> owners, account_pubkyes |-> pubkeys]

\* The (event_type, filter) pairs an iterator is constructed with.
Configs ==
    { [event_type |-> "AccountUpdate", filter |-> ShardFilter(<<>>, <<>>, <<>>)],
      [event_type |-> "NewTransaction", filter |-> ShardFilter(<<K1>>, <<>>, <<>>)] }

VARIABLES
    log,                    \* the shard's rows in table log
    committed,              \* periods with a row in producer_period_commit_log
    event_type,             \* ShardIterator.event_type
    filter,                 \* ShardIterator.filter
    inner,                  \* ShardIterator.inner: [kind, offset, batch]
    last_period_confirmed,  \* ShardIterator.last_period_confirmed
    chan,                   \* the oneshot channel whose receiver inner holds
    pc,                     \* "idle", or "warm" while warm() awaits its fetch
    ret,                    \* what the last try_next call returned
    returned                \* offsets of the events returned as Some, in order

vars == <<log, committed, event_type, filter, inner, last_period_confirmed,
          chan, pc, ret, returned>>

\* ------------------------------------------------------ ShardIteratorState
State(kind, offset, batch) == [kind |-> kind, offset |-> offset, batch |-> batch]
Empty(o) == State("Empty", o, <<>>)
Loading(o) == State("Loading", o, <<>>)
Loaded(o, batch) == State("Loaded", o, batch)
ConfirmingPeriod(o) == State("ConfirmingPeriod", o, <<>>)
Streaming(o, batch) == State("Streaming", o, batch)
WaitingEndOfPeriod(o) == State("WaitingEndOfPeriod", o, <<>>)

last_offset == inner.offset
\* Variant: a state that streams counts as empty too.
is_empty_OrStreaming == inner.kind \in {"Empty", "Streaming"}

is_empty == inner.kind = "Empty"

\* -------------------------------------------------------- oneshot channel
\* status "pending": the task holds the sender and has not sent;
\* "sent": a value is in the slot; "closed": the sender was dropped unsent.
\* Once the receiver is dropped with its iterator: "orphan" while the task
\* still runs, "undelivered" after its send has failed.
Channel(op, o, period) ==
    [op |-> op, last_offset |-> o, period |-> period, status |-> "pending",
     batch |-> <<>>, flag |-> FALSE]
NoChannel == <<>>
rx == chan[1]

\* What try_next did: the arm of its match that ran (the state it found);
\* "None" for Ok(None), "Some" for Ok(Some(row)), "Err" for an error; the row it
\* returned and the row it popped from the micro batch, if any.  "New" stands
\* for an iterator try_next was never called on.
CallResult(arm, result, row, popped) ==
    [arm |-> arm, result |-> result, row |-> row, popped |-> popped]

\* ------------------------------------------------------------ pure helpers
Min(a, b) == IF a <= b THEN a ELSE b

Contains(seq, x) == \E i \in 1 .. Len(seq) : seq[i] = x

RECURSIVE OrderByOffsetAsc(_)
OrderByOffsetAsc(rows) ==
    IF rows = {} THEN <<>>
    ELSE LET first == CHOOSE r \in rows : \A q \in rows : r.offset <= q.offset
         IN  <<first>> \o OrderByOffsetAsc(rows \ {first})

\* Variant: the last n rows in place of the first n.
Limit_Last(rows, n) == SubSeq(rows, Len(rows) - Min(n, Len(rows)) + 1, Len(rows))

\* LIMIT n
Limit(rows, n) == SubSeq(rows, 1, Min(n, Len(rows)))

\* period = last_offset / SHARD_OFFSET_MODULO in is_period_committed
CommitCheckPeriod(o) == o \div SHARD_OFFSET_MODULO

\* period = (last_offset + 1) / SHARD_OFFSET_MODULO in fetch_micro_batch
FetchPeriod(o) == (o + 1) \div SHARD_OFFSET_MODULO

\* curr_period = last_offset / SHARD_OFFSET_MODULO in the Loaded arm
CurrPeriod(o) == o \div SHARD_OFFSET_MODULO

\* last_period_offset = ((curr_period + 1) * SHARD_OFFSET_MODULO) - 1
LastPeriodOffset(curr_period) == ((curr_period + 1) * SHARD_OFFSET_MODULO) - 1

\* Variant: the first offset of a period in place of the last.
AtEndOfPeriod_StartOfPeriod(o) == o % SHARD_OFFSET_MODULO = 0

\* (last_offset + 1) % SHARD_OFFSET_MODULO == 0 in the Streaming arm
AtEndOfPeriod(o) == (o + 1) % SHARD_OFFSET_MODULO = 0

\* Variants of the comparison: strict, and dropped.
PeriodAlreadyConfirmed_Strict(curr_period, confirmed) == curr_period < confirmed
PeriodAlreadyConfirmed_Always(curr_period, confirmed) == TRUE

\* curr_period <= self.last_period_confirmed in the Loaded arm
PeriodAlreadyConfirmed(curr_period, confirmed) == curr_period <= confirmed

\* Variant: the period before the one that was checked.
ConfirmedPeriod_Previous(o) == (o \div SHARD_OFFSET_MODULO) - 1

\* self.last_period_confirmed = last_offset / SHARD_OFFSET_MODULO in the
\* ConfirmingPeriod and WaitingEndOfPeriod arms
ConfirmedPeriod(o) == o \div SHARD_OFFSET_MODULO

\* Variant: the start offset's own period counts as confirmed.
InitialPeriodConfirmed_Current(o) == o \div SHARD_OFFSET_MODULO

\* last_period_confirmed: (offset / SHARD_OFFSET_MODULO) - 1 in new
InitialPeriodConfirmed(o) == (o \div SHARD_OFFSET_MODULO) - 1

\* The pushdown conditions forge_account_upadate_event_query appends.
PushdownMatches(f, row) ==
    /\ f.account_pubkyes # <<>> =>
           row.pubkey # None /\ Contains(f.account_pubkyes, row.pubkey[1])
    /\ f.account_owners # <<>> =>
           row.owner # None /\ Contains(f.account_owners, row.owner[1])

\* Variant: offset >= ? in place of offset > ?.
ExecuteGetEvents_Inclusive(rows, etype, f, o, period) ==
    IF etype = "AccountUpdate"
    THEN Limit(OrderByOffsetAsc({r \in rows : /\ r.offset >= o
                                              /\ r.period = period
                                              /\ r.event_type = "AccountUpdate"
                                              /\ PushdownMatches(f, r)}),
               MICRO_BATCH_SIZE)
    ELSE OrderByOffsetAsc({r \in rows : /\ r.offset >= o
                                        /\ r.period = period
                                        /\ r.event_type = "NewTransaction"})

\* The rows the prepared statement get_events_prepared_stmt selects when it is
\* executed with (producer_id, shard_id, last_offset, period) on table rows.
ExecuteGetEvents(rows, etype, f, o, period) ==
    IF etype = "AccountUpdate"
    THEN Limit(OrderByOffsetAsc({r \in rows : /\ r.offset > o
                                              /\ r.period = period
                                              /\ r.event_type = "AccountUpdate"
                                              /\ PushdownMatches(f, r)}),
               MICRO_BATCH_SIZE)
    ELSE OrderByOffsetAsc({r \in rows : /\ r.offset > o
                                        /\ r.period = period
                                        /\ r.event_type = "NewTransaction"})

\* PRODUCER_SHARD_PERIOD_COMMIT_EXISTS: a row for the period exists.
ExecutePeriodCommitExists(commits, period) == period \in commits

\* Variant: every key of the row must be in the filter.
filter_row_AllKeys(f, row) ==
    IF row.event_type = "NewTransaction"
    THEN LET elligible_acc_keys == f.tx_account_keys
             is_row_elligible ==
                 /\ row.account_keys # None
                 /\ \A i \in 1 .. Len(row.account_keys[1]) :
                        Contains(elligible_acc_keys, row.account_keys[1][i])
         IN  IF elligible_acc_keys # <<>> /\ ~is_row_elligible
             THEN None
             ELSE Some(row)
    ELSE Some(row)

\* filter_row: Some(row) when the row is kept, None when it is dropped.
filter_row(f, row) ==
    IF row.event_type = "NewTransaction"
    THEN LET elligible_acc_keys == f.tx_account_keys
             is_row_elligible ==
                 /\ row.account_keys # None
                 /\ \E i \in 1 .. Len(row.account_keys[1]) :
                        Contains(elligible_acc_keys, row.account_keys[1][i])
         IN  IF elligible_acc_keys # <<>> /\ ~is_row_elligible
             THEN None
             ELSE Some(row)
    ELSE Some(row)

\* ---------------------------------------------------------------- new
Init ==
    /\ log = {}
    /\ committed = {}
    /\ \E c \in Configs : event_type = c.event_type /\ filter = c.filter
    /\ \E offset \in StartOffsets :
          /\ inner = Empty(offset)
          /\ last_period_confirmed = InitialPeriodConfirmed(offset)
    /\ chan = NoChannel
    /\ pc = "idle"
    /\ ret = CallResult("New", "New", None, None)
    /\ returned = <<>>

\* ------------------------------------------------- spawned background tasks
\* fetch_micro_batch: the oneshot channel whose sender the spawned task owns.
fetch_micro_batch(o) == Some(Channel("fetch", o, FetchPeriod(o)))

\* is_period_committed: likewise for the commit check.
is_period_committed(o) == Some(Channel("commit", o, CommitCheckPeriod(o)))

\* Variant: the task sends again on a channel that already holds a value.
FetchTaskSend_SendsAgain ==
    /\ chan # NoChannel
    /\ rx.op = "fetch"
    /\ rx.status \in {"pending", "sent"}
    /\ chan' = Some([rx EXCEPT !.status = "sent",
                                !.batch = ExecuteGetEvents(log, event_type, filter,
                                                           rx.last_offset, rx.period)])
    /\ UNCHANGED <<log, committed, event_type, filter, inner,
                   last_period_confirmed, pc, ret, returned>>

\* The task spawned by fetch_micro_batch executes the query and sends the rows.
FetchTaskSend ==
    /\ chan # NoChannel
    /\ rx.op = "fetch"
    /\ rx.status = "pending"
    /\ chan' = Some([rx EXCEPT !.status = "sent",
                                !.batch = ExecuteGetEvents(log, event_type, filter,
                                                           rx.last_offset, rx.period)])
    /\ UNCHANGED <<log, committed, event_type, filter, inner,
                   last_period_confirmed, pc, ret, returned>>

\* The task spawned by is_period_committed executes the query and sends the flag.
CommitTaskSend ==
    /\ chan # NoChannel
    /\ rx.op = "commit"
    /\ rx.status = "pending"
    /\ chan' = Some([rx EXCEPT !.status = "sent",
                                !.flag = ExecutePeriodCommitExists(committed, rx.period)])
    /\ UNCHANGED <<log, committed, event_type, filter, inner,
                   last_period_confirmed, pc, ret, returned>>

\* A task whose query or decoding fails returns early through `?`: its sender
\* is dropped without a send.
TaskFail ==
    /\ chan # NoChannel
    /\ rx.status = "pending"
    /\ chan' = Some([rx EXCEPT !.status = "closed"])
    /\ UNCHANGED <<log, committed, event_type, filter, inner,
                   last_period_confirmed, pc, ret, returned>>

\* ---------------------------------------------------------------- try_next
\* Every arm starts from the state try_next took out of self.inner with
\* mem::replace, which leaves Empty(last_offset) behind; an arm that bails
\* leaves that Empty state in place and drops the receiver it held.

\* Some(row) filtered by filter_row, as the value of the call.
Yield(row) ==
    LET kept == filter_row(filter, row)
    IN  /\ ret' = CallResult(inner.kind, IF kept = None THEN "None" ELSE "Some",
                             kept, Some(row))
        /\ returned' = IF kept = None THEN returned
                       ELSE Append(returned, kept[1].offset)

\* Variant: a closed channel is retried, the operation spawned again.
Bail_Retry ==
    /\ inner' = inner
    /\ chan' = Some(Channel(rx.op, rx.last_offset, rx.period))
    /\ ret' = CallResult(inner.kind, "None", None, None)
    /\ UNCHANGED <<last_period_confirmed, returned>>

\* Variant: the state taken out of self.inner is put back before the error.
Bail_StateRestored ==
    /\ ret' = CallResult(inner.kind, "Err", None, None)
    /\ UNCHANGED <<inner, chan, last_period_confirmed, returned>>

\* anyhow::bail! on TryRecvError::Closed
Bail ==
    /\ inner' = Empty(last_offset)
    /\ chan' = NoChannel
    /\ ret' = CallResult(inner.kind, "Err", None, None)
    /\ UNCHANGED <<last_period_confirmed, returned>>

\* Variant: the arm returns without putting the state it took back.
NotReady_StateNotRestored ==
    /\ inner' = Empty(last_offset)
    /\ chan' = NoChannel
    /\ ret' = CallResult(inner.kind, "None", None, None)
    /\ UNCHANGED <<last_period_confirmed, returned>>

\* TryRecvError::Empty: the state is put back with its receiver
NotReady ==
    /\ ret' = CallResult(inner.kind, "None", None, None)
    /\ UNCHANGED <<inner, chan, last_period_confirmed, returned>>

\* Variant: the cursor is left on the offset before the popped row.
PopFront_CursorKept(o, batch) == Streaming(o, Tail(batch))

\* micro_batch.pop_front() gave Some(row): Streaming(row.offset, micro_batch)
PopFront(o, batch) == Streaming(Head(batch).offset, Tail(batch))

TryNextEmpty ==
    /\ inner.kind = "Empty"
    /\ chan' = fetch_micro_batch(last_offset)
    /\ inner' = Loading(last_offset)
    /\ ret' = CallResult(inner.kind, "None", None, None)
    /\ UNCHANGED <<last_period_confirmed, returned>>

TryNextLoading ==
    /\ inner.kind = "Loading"
    /\ CASE rx.status = "pending" -> NotReady
         [] rx.status = "closed" -> Bail
         [] rx.status = "sent" ->
              /\ inner' = Loaded(last_offset, rx.batch)
              /\ chan' = NoChannel
              /\ ret' = CallResult(inner.kind, "None", None, None)
              /\ UNCHANGED <<last_period_confirmed, returned>>

TryNextLoaded ==
    /\ inner.kind = "Loaded"
    /\ IF inner.batch # <<>>
       THEN LET row == Head(inner.batch)
            IN  /\ inner' = PopFront(last_offset, inner.batch)
                /\ Yield(row)
                /\ UNCHANGED <<chan, last_period_confirmed>>
       ELSE LET curr_period == CurrPeriod(last_offset)
            IN  IF PeriodAlreadyConfirmed(curr_period, last_period_confirmed)
                THEN /\ inner' = Empty(LastPeriodOffset(curr_period))
                     /\ ret' = CallResult(inner.kind, "None", None, None)
                     /\ UNCHANGED <<chan, last_period_confirmed, returned>>
                ELSE /\ chan' = is_period_committed(last_offset)
                     /\ inner' = ConfirmingPeriod(last_offset)
                     /\ ret' = CallResult(inner.kind, "None", None, None)
                     /\ UNCHANGED <<last_period_confirmed, returned>>

TryNextConfirmingPeriod ==
    /\ inner.kind = "ConfirmingPeriod"
    /\ CASE rx.status = "pending" -> NotReady
         [] rx.status = "closed" -> Bail
         [] rx.status = "sent" ->
              /\ last_period_confirmed' =
                     IF rx.flag THEN ConfirmedPeriod(last_offset)
                     ELSE last_period_confirmed
              /\ inner' = Empty(last_offset)
              /\ chan' = NoChannel
              /\ ret' = CallResult(inner.kind, "None", None, None)
              /\ UNCHANGED returned

TryNextStreaming ==
    /\ inner.kind = "Streaming"
    /\ IF inner.batch # <<>>
       THEN LET row == Head(inner.batch)
            IN  /\ inner' = PopFront(last_offset, inner.batch)
                /\ Yield(row)
                /\ UNCHANGED <<chan, last_period_confirmed>>
       ELSE IF AtEndOfPeriod(last_offset)
            THEN /\ chan' = is_period_committed(last_offset)
                 /\ inner' = WaitingEndOfPeriod(last_offset)
                 /\ ret' = CallResult(inner.kind, "None", None, None)
                 /\ UNCHANGED <<last_period_confirmed, returned>>
            ELSE /\ inner' = Empty(last_offset)
                 /\ ret' = CallResult(inner.kind, "None", None, None)
                 /\ UNCHANGED <<chan, last_period_confirmed, returned>>

\* Variant: the arm resolves once, as ConfirmingPeriod does, and falls back to
\* Empty whatever the answer.
TryNextWaitingEndOfPeriod_ResolvesOnce ==
    /\ inner.kind = "WaitingEndOfPeriod"
    /\ CASE rx.status = "pending" -> NotReady
         [] rx.status = "closed" -> Bail
         [] rx.status = "sent" ->
              /\ last_period_confirmed' =
                     IF rx.flag THEN ConfirmedPeriod(last_offset)
                     ELSE last_period_confirmed
              /\ inner' = Empty(last_offset)
              /\ chan' = NoChannel
              /\ ret' = CallResult(inner.kind, "None", None, None)
              /\ UNCHANGED returned

TryNextWaitingEndOfPeriod ==
    /\ inner.kind = "WaitingEndOfPeriod"
    /\ CASE rx.status = "pending" -> NotReady
         [] rx.status = "closed" -> Bail
         [] rx.status = "sent" ->
              IF rx.flag
              THEN /\ last_period_confirmed' = ConfirmedPeriod(last_offset)
                   /\ inner' = Empty(last_offset)
                   /\ chan' = NoChannel
                   /\ ret' = CallResult(inner.kind, "None", None, None)
                   /\ UNCHANGED returned
              ELSE /\ chan' = is_period_committed(last_offset)
                   /\ inner' = WaitingEndOfPeriod(last_offset)
                   /\ ret' = CallResult(inner.kind, "None", None, None)
                   /\ UNCHANGED <<last_period_confirmed, returned>>

try_next ==
    /\ pc = "idle"
    /\ \/ TryNextEmpty
       \/ TryNextLoading
       \/ TryNextLoaded
       \/ TryNextConfirmingPeriod
       \/ TryNextStreaming
       \/ TryNextWaitingEndOfPeriod
    /\ UNCHANGED <<log, committed, event_type, filter, pc>>

\* -------------------------------------------------------------------- warm
\* warm() up to its await: nothing when the state is not Empty, else the
\* fetch is spawned and the call waits for the receiver.
WarmCall ==
    /\ pc = "idle"
    /\ IF ~is_empty
       THEN UNCHANGED <<chan, pc>>
       ELSE /\ chan' = fetch_micro_batch(last_offset)
            /\ pc' = "warm"
    /\ UNCHANGED <<log, committed, event_type, filter, inner,
                   last_period_confirmed, ret, returned>>

\* warm() from its await on: the receiver resolved with the micro batch, or
\* with RecvError when the sender was dropped (`?` returns the error).
WarmResume ==
    /\ pc = "warm"
    /\ rx.status # "pending"
    /\ IF rx.status = "sent"
       THEN inner' = Streaming(last_offset, rx.batch)
       ELSE UNCHANGED inner
    /\ chan' = NoChannel
    /\ pc' = "idle"
    /\ UNCHANGED <<log, committed, event_type, filter,
                   last_period_confirmed, ret, returned>>

\* ---------------------------------------------------------------- producer
\* The producer appends events in increasing offset order, never into a
\* period it has committed.
ProducerAppend ==
    /\ Cardinality(log) < MaxEvents
    /\ \E o \in Offsets, shape \in RowShapes :
          /\ \A r \in log : r.offset < o
          /\ (o \div SHARD_OFFSET_MODULO) \notin committed
          /\ log' = log \cup {BlockchainEvent(o, shape)}
    /\ UNCHANGED <<committed, event_type, filter, inner, last_period_confirmed,
                   chan, pc, ret, returned>>

\* The producer commits its periods in order, each once it will write no more
\* events into it.
ProducerCommit ==
    /\ \E p \in Periods :
          /\ p \notin committed
          /\ \A q \in 0 .. p - 1 : q \in committed
          /\ committed' = committed \cup {p}
    /\ UNCHANGED <<log, event_type, filter, inner, last_period_confirmed,
                   chan, pc, ret, returned>>

Next ==
    \/ try_next
    \/ WarmCall
    \/ WarmResume
    \/ FetchTaskSend
    \/ CommitTaskSend
    \/ TaskFail
    \/ ProducerAppend
    \/ ProducerCommit

Spec == Init /\ [][Next]_vars

\* An iterator driven by try_next alone, whose background tasks all run to
\* their send: the caller polls forever and every spawned task is scheduled.
\* Nothing obliges the producer to write or to commit.
PollNext ==
    \/ try_next
    \/ FetchTaskSend
    \/ CommitTaskSend
    \/ ProducerAppend
    \/ ProducerCommit

PollSpec ==
    /\ Init
    /\ [][PollNext]_vars
    /\ WF_vars(try_next)
    /\ WF_vars(FetchTaskSend)
    /\ WF_vars(CommitTaskSend)

\* ------------------------------------------------- the iterator is dropped
\* Dropping the iterator drops the state and the receiver it holds: a value
\* or a closure signal in the slot is dropped with it, and the sender of a
\* task still running is left without a receiver (status "orphan").
Drop ==
    /\ pc = "idle"
    /\ pc' = "dropped"
    /\ chan' = IF chan # NoChannel /\ rx.status = "pending"
               THEN Some([rx EXCEPT !.status = "orphan"])
               ELSE NoChannel
    /\ UNCHANGED <<log, committed, event_type, filter, inner,
                   last_period_confirmed, ret, returned>>

\* A task that completes after the receiver was dropped: sender.send returns
\* Err, map_err turns it into the task's error and the value is discarded.
TaskSendAfterDrop ==
    /\ chan # NoChannel
    /\ rx.status = "orphan"
    /\ chan' = Some([rx EXCEPT !.status = "undelivered"])
    /\ UNCHANGED <<log, committed, event_type, filter, inner,
                   last_period_confirmed, pc, ret, returned>>

\* The iterator with its tasks, its caller and the producer, the caller
\* dropping the iterator at any point between two calls.  The shard is
\* followed for as long as the iterator lives.
LifeNext ==
    \/ try_next
    \/ WarmCall
    \/ WarmResume
    \/ FetchTaskSend
    \/ CommitTaskSend
    \/ TaskFail
    \/ (pc # "dropped" /\ ProducerAppend)
    \/ (pc # "dropped" /\ ProducerCommit)
    \/ Drop
    \/ TaskSendAfterDrop

LifeSpec == Init /\ [][LifeNext]_vars

\* ------------------------------------------- filter_row on its own inputs
\* The residual filter applied to one row under one filter, both drawn from
\* the key lists of at most MaxKeys keys: log holds the row, filter the
\* filter, ret the outcome.
Keys == {K1, K2, K3}

KeyLists == UNION {[1 .. n -> Keys] : n \in 0 .. MaxKeys}

FilterRows ==
    { BlockchainEvent(0, [event_type |-> t, pubkey |-> None, owner |-> None,
                          account_keys |-> k]) :
        t \in {"AccountUpdate", "NewTransaction"},
        k \in {None} \cup {Some(l) : l \in KeyLists} }

FilterInit ==
    /\ \E row \in FilterRows : log = {row}
    /\ \E tx \in KeyLists : filter = ShardFilter(tx, <<>>, <<>>)
    /\ committed = {}
    /\ event_type = "NewTransaction"
    /\ inner = Empty(0)
    /\ last_period_confirmed = InitialPeriodConfirmed(0)
    /\ chan = NoChannel
    /\ pc = "idle"
    /\ ret = CallResult("New", "New", None, None)
    /\ returned = <<>>

ApplyFilterRow ==
    /\ ret.result = "New"
    /\ \E row \in log :
          LET kept == filter_row(filter, row)
          IN  ret' = CallResult("filter_row", IF kept = None THEN "None" ELSE "Some",
                                kept, Some(row))
    /\ UNCHANGED <<log, committed, event_type, filter, inner,
                   last_period_confirmed, chan, pc, returned>>

FilterNext == ApplyFilterRow

FilterSpec == FilterInit /\ [][FilterNext]_vars

\* ------------------------------ forge_account_upadate_event_query on its own
\* A rendered query is the sequence of the lines of its template, each
\* placeholder replaced: element 6 holds {other_conds}, element 8 the LIMIT.
HexDigits ==
    <<"0", "1", "2", "3", "4", "5", "6", "7",
      "8", "9", "a", "b", "c", "d", "e", "f">>

\* format!("{:02x}", b)
FormatByte(b) == HexDigits[(b \div 16) + 1] \o HexDigits[(b % 16) + 1]

\* Vec<String>::join(sep)
RECURSIVE Join(_, _)
Join(strs, sep) ==
    IF strs = <<>> THEN ""
    ELSE IF Len(strs) = 1 THEN strs[1]
    ELSE strs[1] \o sep \o Join(Tail(strs), sep)

\* format_as_scylla_hexstring panics on an empty slice.
format_as_scylla_hexstring(bytes) ==
    IF Len(bytes) = 0 THEN "panic: byte slice is empty"
    ELSE "0x" \o Join([i \in 1 .. Len(bytes) |-> FormatByte(bytes[i])], "")

forge_account_upadate_event_query(f) ==
    LET pubkeys == [i \in 1 .. Len(f.account_pubkyes) |->
                       format_as_scylla_hexstring(f.account_pubkyes[i])]
        owners == [i \in 1 .. Len(f.account_owners) |->
                      format_as_scylla_hexstring(f.account_owners[i])]
        conds == (IF pubkeys # <<>>
                  THEN <<"AND pubkey IN (" \o Join(pubkeys, ", ") \o ")">>
                  ELSE <<>>)
                 \o (IF owners # <<>>
                     THEN <<"AND owner IN (" \o Join(owners, ", ") \o ")">>
                     ELSE <<>>)
    IN  <<"SELECT", "{LOG_PROJECTION}", "FROM log",
          "WHERE producer_id = ? and shard_id = ? and offset > ? and period = ?",
          "AND event_type = 0",
          Join(conds, " "),
          "ORDER BY offset ASC",
          "LIMIT " \o ToString(MICRO_BATCH_SIZE),
          "ALLOW FILTERING">>

\* The query forged for one AccountUpdate filter, its owner and pubkey lists
\* drawn from the key lists of at most MaxKeys keys: ret holds the query.
ForgeInit ==
    /\ \E owners \in KeyLists, pubkeys \in KeyLists :
          filter = ShardFilter(<<>>, owners, pubkeys)
    /\ log = {}
    /\ committed = {}
    /\ event_type = "AccountUpdate"
    /\ inner = Empty(0)
    /\ last_period_confirmed = InitialPeriodConfirmed(0)
    /\ chan = NoChannel
    /\ pc = "idle"
    /\ ret = CallResult("New", "New", None, None)
    /\ returned = <<>>

ForgeQuery ==
    /\ ret.result = "New"
    /\ ret' = CallResult("forge_account_upadate_event_query", "Some",
                         Some(forge_account_upadate_event_query(filter)), None)
    /\ UNCHANGED <<log, committed, event_type, filter, inner,
                   last_period_confirmed, chan, pc, returned>>

ForgeNext == ForgeQuery

ForgeSpec == ForgeInit /\ [][ForgeNext]_vars

\* ------------------------------------------------------- shared vocabulary
\* The rows of the log the iterator's fetch query can select.
Matching == {r \in log : ExecuteGetEvents({r}, event_type, filter, -1, r.period) # <<>>}

\* try_next was never called and no warm() is under way or has installed a batch.
Fresh == ret.result = "New" /\ inner.kind = "Empty" /\ pc = "idle"

\* The sender of the pending channel was dropped without a send.
SenderDropped == chan # NoChannel /\ rx.status = "closed"

\* A fetch for the period is spawned and has not resolved.
FetchPending(period) ==
    chan # NoChannel /\ rx.op = "fetch" /\ rx.status = "pending" /\ rx.period = period

OffsetsOf(rows) == [i \in 1 .. Len(rows) |-> rows[i].offset]

\* ---------------------------------------------------------------------- C1
\* C1: once every period of the log is committed, with the events of the
\* iterator's type all in one period, all above the start offset and none
\* rejected by the residual filter, a fresh iterator polled forever whose
\* background tasks all resolve returns exactly those events, in offset order.
C1_Pre ==
    /\ Fresh
    /\ committed = Periods
    /\ \A r, q \in Matching : r.period = q.period
    /\ \A r \in Matching : r.offset > last_offset /\ filter_row(filter, r) # None

C1_AllReturned == returned = OffsetsOf(OrderByOffsetAsc(Matching))

C1_AllEventsReturned == C1_Pre ~> C1_AllReturned

\* ---------------------------------------------------------------------- C2
\* C2: whenever a period p is committed and the cursor is at or before the
\* end of p, an iterator polled forever whose background tasks all resolve
\* eventually dispatches a fetch for period p + 1.  The cursor moves only to
\* offsets of the period a fetch queried, so a cursor beyond the end of p
\* shows that the fetch for p + 1 was dispatched and has already resolved.
C2_FetchDispatched(p) ==
    FetchPending(p + 1) \/ last_offset > LastPeriodOffset(p)

C2_ClosedPeriodSkipped ==
    \A p \in Periods :
        (p \in committed /\ last_offset <= LastPeriodOffset(p))
            ~> C2_FetchDispatched(p)

\* ---------------------------------------------------------------------- C3
\* C3: the offsets of the events returned as Some are strictly increasing,
\* whatever the interleaving of warm, try_next, the tasks and the producer.
C3_StrictlyIncreasing ==
    \A i, j \in 1 .. Len(returned) : i < j => returned[i] < returned[j]

\* Two events were returned, the second popped in the Streaming arm.
C3_Witness ==
    /\ Len(returned) = 2
    /\ ret.arm = "Streaming"
    /\ ret.result = "Some"

\* ---------------------------------------------------------------------- C4
\* A background task is spawned and has not resolved.
TaskPending == chan # NoChannel /\ rx.status = "pending"

\* The commit record of the cursor's period is absent: of the period the
\* cursor lies in or, on a period's last offset, of the one it fetches from.
C4_CommitAbsent ==
    \/ (last_offset \div SHARD_OFFSET_MODULO) \notin committed
    \/ ((last_offset + 1) \div SHARD_OFFSET_MODULO) \notin committed

\* C4: while the commit record of the cursor's period is absent, an iterator
\* with no task in flight always gets to spawn a new fetch or commit check, and
\* as long as there is no fetched row to pop the cursor stays where it is, so
\* it does not pass the period's final offset.
C4_KeepsRetrying ==
    /\ (C4_CommitAbsent /\ ~TaskPending) ~> TaskPending
    /\ [][(C4_CommitAbsent /\ inner.batch = <<>>) => last_offset' = last_offset]_vars

\* A commit check came back "not committed" and the iterator is back in Empty
\* on the same offset, the period still uncommitted.
C4_Witness ==
    /\ ret.arm = "ConfirmingPeriod"
    /\ inner.kind = "Empty"
    /\ C4_CommitAbsent

\* ---------------------------------------------------------------------- C5
\* try_next takes a commit check's answer "committed" out of its channel.
C5_ObservesCommitted ==
    /\ pc = "idle"
    /\ chan # NoChannel
    /\ rx.op = "commit" /\ rx.status = "sent" /\ rx.flag
    /\ chan' # chan

\* C5: last_period_confirmed never decreases, and the step that observes the
\* commit check of period p answer "committed" leaves it at p or above.
C5_ConfirmedMonotone ==
    [][/\ last_period_confirmed' >= last_period_confirmed
       /\ C5_ObservesCommitted => last_period_confirmed' >= rx.period]_vars

\* A second period was observed committed.
C5_Witness ==
    /\ last_period_confirmed >= 1
    /\ ret.arm \in {"ConfirmingPeriod", "WaitingEndOfPeriod"}

\* ---------------------------------------------------------------------- C6
\* C6: from Loaded(o, empty batch), try_next goes to Empty on the final offset
\* of o's period, returning None and spawning nothing, when that period is at
\* most last_period_confirmed; a commit check is spawned from Loaded only when
\* the period is greater than last_period_confirmed.
C6_LoadedEmptyShortCircuit ==
    [][(inner.kind = "Loaded" /\ inner' # inner) =>
          LET period == last_offset \div SHARD_OFFSET_MODULO
          IN  /\ (inner.batch = <<>> /\ period <= last_period_confirmed) =>
                    /\ inner' = Empty((period + 1) * SHARD_OFFSET_MODULO - 1)
                    /\ ret'.result = "None"
                    /\ chan' = NoChannel
              /\ chan' # NoChannel =>
                    /\ chan'[1].op = "commit"
                    /\ inner.batch = <<>>
                    /\ period > last_period_confirmed]_vars

\* The short circuit moved the cursor from inside a confirmed period to its
\* final offset.
C6_Witness ==
    /\ ret.arm = "Loaded"
    /\ inner.kind = "Empty"
    /\ last_offset \div SHARD_OFFSET_MODULO <= last_period_confirmed
    /\ returned # <<>>

\* ---------------------------------------------------------------------- C7
\* C7: try_next on a state whose channel was closed without a send returns an
\* error, returns no event and spawns nothing.
C7_ClosedIsFatal ==
    [][(/\ SenderDropped
        /\ pc = "idle"
        /\ <<inner, chan, ret, last_period_confirmed, returned>>'
              # <<inner, chan, ret, last_period_confirmed, returned>>) =>
          /\ ret'.result = "Err"
          /\ ret'.row = None
          /\ returned' = returned
          /\ chan' = NoChannel]_vars

\* try_next failed in the arm of a commit check.
C7_Witness ==
    /\ ret.result = "Err"
    /\ ret.arm = "WaitingEndOfPeriod"

\* ---------------------------------------------------------------------- C8
\* C8: when the row popped from the batch is rejected by the residual filter,
\* try_next returns None and the state is Streaming(row.offset, rest), as if
\* the row had been returned; no rejected row is among the returned events.
C8_RejectedRowAdvances ==
    /\ [][(/\ inner.kind \in {"Loaded", "Streaming"}
           /\ inner.batch # <<>>
           /\ inner' # inner
           /\ filter_row(filter, Head(inner.batch)) = None) =>
             /\ ret'.result = "None"
             /\ inner' = Streaming(Head(inner.batch).offset, Tail(inner.batch))
             /\ last_offset' = Head(inner.batch).offset
             /\ returned' = returned]_vars
    /\ [](\A r \in log : filter_row(filter, r) = None =>
              \A i \in 1 .. Len(returned) : returned[i] # r.offset)

\* After an event was returned, try_next popped a row the filter rejected.
C8_Witness ==
    /\ ret.popped # None
    /\ ret.row = None
    /\ inner.kind = "Streaming"
    /\ last_offset = ret.popped[1].offset
    /\ returned # <<>>

\* ---------------------------------------------------------------------- C9
Range(seq) == {seq[i] : i \in 1 .. Len(seq)}

\* The rows the claim says are kept.
C9_Keep(row, f) ==
    \/ row.event_type # "NewTransaction"
    \/ f.tx_account_keys = <<>>
    \/ /\ row.account_keys # None
       /\ Range(row.account_keys[1]) \cap Range(f.tx_account_keys) # {}

\* C9: filter_row returns the row itself when the row is not a NewTransaction
\* row, or tx_account_keys is empty, or one of the row's account keys is in
\* tx_account_keys; otherwise it returns None.
C9_FilterRowDecision ==
    ret.arm = "filter_row" =>
        ret.row = IF C9_Keep(ret.popped[1], filter) THEN ret.popped ELSE None

\* A NewTransaction row with two keys, only the second of them in the filter,
\* was kept.
C9_Witness ==
    /\ ret.arm = "filter_row"
    /\ ret.result = "Some"
    /\ ret.popped[1].event_type = "NewTransaction"
    /\ ret.popped[1].account_keys = Some(<<K2, K1>>)
    /\ filter.tx_account_keys = <<K3, K1>>

\* --------------------------------------------------------------------- C10
\* C10: try_next on a state whose background task has not resolved returns
\* None and changes neither the state, the channel it waits on,
\* last_period_confirmed nor the returned events.
C10_NotReadyChangesNothing ==
    [][(TaskPending /\ try_next) =>
          /\ ret'.result = "None"
          /\ ret'.row = None
          /\ inner' = inner
          /\ chan' = chan
          /\ last_period_confirmed' = last_period_confirmed
          /\ returned' = returned]_vars

\* try_next polled a commit check that had not resolved: the ConfirmingPeriod
\* arm ran and the state is ConfirmingPeriod still.
C10_Witness ==
    /\ ret.arm = "ConfirmingPeriod"
    /\ ret.result = "None"
    /\ inner.kind = "ConfirmingPeriod"
    /\ TaskPending

\* --------------------------------------------------------------------- C11
\* C11: warm() on a state that is not Empty changes nothing; on Empty(o) it
\* spawns one fetch for offset o and, once the fetch has sent its batch,
\* installs Streaming(o, batch), leaving the cursor, last_period_confirmed and
\* the returned events as they were.
C11_WarmFrame ==
    [][/\ (WarmCall /\ inner.kind # "Empty") => UNCHANGED vars
       /\ (pc = "idle" /\ pc' = "warm") =>
             /\ inner.kind = "Empty"
             /\ chan = NoChannel
             /\ chan' = Some(Channel("fetch", last_offset,
                                     (last_offset + 1) \div SHARD_OFFSET_MODULO))
             /\ UNCHANGED <<inner, last_period_confirmed, ret, returned>>
       /\ (pc = "warm" /\ pc' = "idle" /\ rx.status = "sent") =>
             /\ inner' = Streaming(last_offset, rx.batch)
             /\ last_offset' = last_offset
             /\ chan' = NoChannel
             /\ UNCHANGED <<last_period_confirmed, ret, returned>>
       /\ pc = "warm" => (inner' = inner \/ pc' = "idle")]_vars

\* warm() on a fresh iterator installed a batch that holds a row.
C11_Witness ==
    /\ pc = "idle"
    /\ ret.result = "New"
    /\ inner.kind = "Streaming"
    /\ inner.batch # <<>>

\* --------------------------------------------------------------------- C12
\* The clause the claim expects for one column: its keys in input order, each
\* as 0x followed by two lowercase hex digits per byte.
C12_Clause(column, keys) ==
    "AND " \o column \o " IN ("
    \o Join([i \in 1 .. Len(keys) |-> format_as_scylla_hexstring(keys[i])], ", ")
    \o ")"

\* C12: for a filter with owners and pubkeys the forged query holds the owner
\* clause followed by the pubkey clause, and for an empty filter it holds no
\* additional AND clause.
C12_OwnerThenPubkey ==
    ret.arm = "forge_account_upadate_event_query" =>
        LET other_conds == ret.row[1][6]
        IN  /\ (filter.account_owners # <<>> /\ filter.account_pubkyes # <<>>) =>
                  other_conds = C12_Clause("owner", filter.account_owners)
                                \o " " \o C12_Clause("pubkey", filter.account_pubkyes)
            /\ (filter.account_owners = <<>> /\ filter.account_pubkyes = <<>>) =>
                  other_conds = ""

\* --------------------------------------------------------------------- C13
\* C13: the cursor never passes a stored event the fetch query matches.  A
\* step that moves the cursor from o to o' > o finds no matching event in
\* (o, o'] other than the row it pops, which sits on o'; and it leaves the
\* cursor on an offset at or below a stored row, or in a committed period, so
\* that a producer appending in increasing offset order and never into a
\* committed period stores nothing in (o, o'] afterwards.
C13_NoEventPassed ==
    [][last_offset' > last_offset =>
          /\ \A r \in Matching' :
                (r.offset > last_offset /\ r.offset <= last_offset') =>
                    /\ r.offset = last_offset'
                    /\ ret'.popped = Some(r)
          /\ \/ \E r \in log' : r.offset >= last_offset'
             \/ (last_offset' \div SHARD_OFFSET_MODULO) \in committed']_vars

\* Two matching events of one period were stored and the cursor reached the
\* second by popping it.
C13_Witness ==
    \E r, q \in Matching :
        /\ r.offset < q.offset
        /\ r.period = q.period
        /\ last_offset = q.offset
        /\ ret.popped = Some(q)

\* --------------------------------------------------------------------- C14
\* A fresh iterator whose start offset is the last offset of a period.
C14_StartOnBoundary ==
    /\ Fresh
    /\ (last_offset + 1) % SHARD_OFFSET_MODULO = 0

\* A fetch from an offset on a period boundary came back empty.
C14_BoundaryFetchEmpty ==
    /\ inner.kind = "Loaded"
    /\ inner.batch = <<>>
    /\ (last_offset + 1) % SHARD_OFFSET_MODULO = 0
    /\ ((last_offset + 1) \div SHARD_OFFSET_MODULO) \notin committed

\* C14: from a start offset o on a period boundary the first try_next spawns
\* a fetch for period (o + 1) div MODULO, and when that fetch came back empty
\* while that period is uncommitted, try_next moves to ConfirmingPeriod(o).
\* The fetch is the first one, or one that behaves as the first, as long as
\* the period of o is not committed or, when it is, as long as no commit check
\* of it was observed (last_period_confirmed is below it).
C14_BoundaryStart ==
    /\ [][(C14_StartOnBoundary /\ try_next) =>
              /\ inner' = Loading(last_offset)
              /\ chan' = Some(Channel("fetch", last_offset,
                                      (last_offset + 1) \div SHARD_OFFSET_MODULO))]_vars
    /\ [][(/\ C14_BoundaryFetchEmpty
           /\ \/ (last_offset \div SHARD_OFFSET_MODULO) \notin committed
              \/ last_period_confirmed < last_offset \div SHARD_OFFSET_MODULO
           /\ try_next) =>
              /\ inner' = ConfirmingPeriod(last_offset)
              /\ ret'.result = "None"]_vars

\* The first fetch from a boundary start was empty, its period uncommitted,
\* and the iterator is confirming.
C14_Witness ==
    /\ inner.kind = "ConfirmingPeriod"
    /\ ret.arm = "Loaded"
    /\ (last_offset + 1) % SHARD_OFFSET_MODULO = 0
    /\ last_period_confirmed = (last_offset \div SHARD_OFFSET_MODULO) - 1
    /\ ((last_offset + 1) \div SHARD_OFFSET_MODULO) \notin committed
    /\ returned = <<>>

\* --------------------------------------------------------------------- C15
\* C15: try_next on Streaming(o, empty batch) returns None and moves to
\* WaitingEndOfPeriod(o), spawning the commit check for o, when o is the last
\* offset of its period, and to Empty(o), spawning nothing, otherwise.
C15_StreamingDrained ==
    [][(inner.kind = "Streaming" /\ inner.batch = <<>> /\ try_next) =>
          /\ ret'.result = "None"
          /\ returned' = returned
          /\ last_period_confirmed' = last_period_confirmed
          /\ IF (last_offset + 1) % SHARD_OFFSET_MODULO = 0
             THEN /\ inner' = WaitingEndOfPeriod(last_offset)
                  /\ chan' = Some(Channel("commit", last_offset,
                                          last_offset \div SHARD_OFFSET_MODULO))
             ELSE /\ inner' = Empty(last_offset)
                  /\ chan' = NoChannel]_vars

\* A batch was drained whose last row, returned to the caller, sits on the
\* final offset of its period: the iterator waits for the end of the period.
C15_Witness ==
    /\ ret.arm = "Streaming"
    /\ inner.kind = "WaitingEndOfPeriod"
    /\ returned # <<>>
    /\ returned[Len(returned)] = last_offset

\* --------------------------------------------------------------------- C16
\* C16: in WaitingEndOfPeriod(o) an answer "not committed" makes try_next
\* spawn a fresh commit check and stay in WaitingEndOfPeriod(o); the state is
\* left only on an answer "committed" (or by the error of a closed channel),
\* and no step from it spawns a fetch.  In ConfirmingPeriod(o) any answer moves
\* to Empty(o), and last_period_confirmed changes only on "committed".
C16_ReissueUntilCommitted ==
    [][/\ (inner.kind = "WaitingEndOfPeriod" /\ try_next /\ rx.status = "sent") =>
             IF rx.flag
             THEN /\ inner' = Empty(last_offset)
                  /\ chan' = NoChannel
                  /\ last_period_confirmed' = last_offset \div SHARD_OFFSET_MODULO
             ELSE /\ inner' = WaitingEndOfPeriod(last_offset)
                  /\ chan' = Some(Channel("commit", last_offset,
                                          last_offset \div SHARD_OFFSET_MODULO))
                  /\ last_period_confirmed' = last_period_confirmed
                  /\ ret'.result = "None"
       /\ (inner.kind = "WaitingEndOfPeriod" /\ inner'.kind # "WaitingEndOfPeriod") =>
             \/ rx.status = "sent" /\ rx.flag
             \/ ret'.result = "Err"
       /\ (inner.kind = "WaitingEndOfPeriod" /\ chan' # NoChannel) =>
             chan'[1].op = "commit"
       /\ (inner.kind = "ConfirmingPeriod" /\ try_next /\ rx.status = "sent") =>
             /\ inner' = Empty(last_offset)
             /\ chan' = NoChannel
             /\ last_period_confirmed' =
                    IF rx.flag THEN last_offset \div SHARD_OFFSET_MODULO
                    ELSE last_period_confirmed]_vars

\* try_next ran in the WaitingEndOfPeriod arm, the iterator is still waiting
\* and the commit check in its slot has answered "not committed".
C16_Witness ==
    /\ ret.arm = "WaitingEndOfPeriod"
    /\ inner.kind = "WaitingEndOfPeriod"
    /\ chan # NoChannel
    /\ rx.status = "sent"
    /\ ~rx.flag

\* --------------------------------------------------------------------- C17
\* C17: a spawned operation puts exactly one outcome on its channel, a value
\* or the closure signal: a pending channel changes only by receiving its
\* outcome (or losing its receiver with the iterator), and an outcome in the
\* slot is never replaced; it leaves the slot only through the one try_next or
\* warm call that takes it, or with the dropped iterator.  An operation that
\* completes after the iterator was dropped changes nothing of the iterator.
C17_OneOutcomeConsumedOnce ==
    [][/\ (chan # NoChannel /\ rx.status = "pending" /\ chan' # chan) =>
             /\ chan' # NoChannel
             /\ chan'[1].status \in {"sent", "closed", "orphan"}
             /\ [chan'[1] EXCEPT !.status = "pending",
                                 !.batch = <<>>, !.flag = FALSE] = rx
             /\ UNCHANGED <<inner, last_period_confirmed, ret, returned>>
       /\ (chan # NoChannel /\ rx.status \in {"sent", "closed"} /\ chan' # chan) =>
             /\ try_next \/ WarmResume \/ Drop
             /\ chan' = NoChannel \/ chan'[1].status = "pending"
       /\ pc = "dropped" =>
             /\ UNCHANGED <<inner, last_period_confirmed, ret, returned, pc>>
             /\ chan' # chan =>
                   /\ rx.status = "orphan"
                   /\ chan'[1] = [rx EXCEPT !.status = "undelivered"]]_vars

\* A task completed after the iterator that spawned it was dropped: its value
\* was not delivered.
C17_Witness ==
    /\ pc = "dropped"
    /\ chan # NoChannel
    /\ rx.status = "undelivered"

\* --------------------------------------------------------------------- C18
\* C18: a micro batch held in Loaded or Streaming has at most
\* MICRO_BATCH_SIZE rows, whatever the iterator's event type.
C18_BatchBounded ==
    inner.kind \in {"Loaded", "Streaming"} => Len(inner.batch) <= MICRO_BATCH_SIZE

\* --------------------------------------------------------------------- C19
\* C19: the commit check spawned because the fetch from offset o came back
\* empty checks the period that fetch queried.  ConfirmingPeriod is entered
\* from Loaded only, with the cursor o of the empty fetch.
C19_SamePeriodChecked ==
    (inner.kind = "ConfirmingPeriod" /\ chan # NoChannel) =>
        rx.period = (last_offset + 1) \div SHARD_OFFSET_MODULO

\* --------------------------------------------------------------------- C20
\* C20: a try_next that fails on a closed channel leaves the iterator in
\* Empty(o), o the cursor before the call, with last_period_confirmed
\* unchanged; a further try_next spawns a new fetch from o (unless a warm()
\* call in between has already fetched from o and installed its batch).
C20_FailureLeavesEmpty ==
    [][/\ (SenderDropped /\ try_next) =>
             /\ ret'.result = "Err"
             /\ inner' = Empty(last_offset)
             /\ last_offset' = last_offset
             /\ last_period_confirmed' = last_period_confirmed
       /\ (ret.result = "Err" /\ inner.kind = "Empty" /\ try_next) =>
             /\ inner' = Loading(last_offset)
             /\ chan' = Some(Channel("fetch", last_offset,
                                     (last_offset + 1) \div SHARD_OFFSET_MODULO))
             /\ last_offset' = last_offset]_vars

\* After an event was returned, try_next failed on the closed channel of a
\* fetch: the iterator is in Empty, its period still unconfirmed.
C20_Witness ==
    /\ ret.result = "Err"
    /\ ret.arm = "Loading"
    /\ inner.kind = "Empty"
    /\ last_period_confirmed < last_offset \div SHARD_OFFSET_MODULO
    /\ returned # <<>>

====
